---- MODULE Spec2Model ----
(***************************************************************************)
(* License API server (src/server.py): the three PostgreSQL tables keys,   *)
(* banned and deactivated, the /verify handler and the /admin handlers.    *)
(* The connection runs in autocommit mode (get_db), so every SQL statement *)
(* is its own transaction: a handler is a sequence of atomic statements    *)
(* that interleave with the statements of the other request workers.       *)
(*                                                                         *)
(* Three specifications share the state:                                   *)
(*   Spec      the handlers on the database and the rate limiter in front  *)
(*             of /verify, statement by statement, two concurrent workers; *)
(*   SpecRL    the in-memory rate limiter, requests one after the other;   *)
(*   SpecRace  the rate limiter statement by statement, two concurrent     *)
(*             calls for one client address, on tables near the limit.     *)
(***************************************************************************)
EXTENDS Integers, Sequences, FiniteSets, TLC

\* ------------------------------------------------------------------ bounds
\* Requests arrive at seconds 1..MaxClock, one request per second.
MaxClock == 2

\* Concurrent request workers of the WSGI server; a request goes to the first free one.
Workers == {1, 2}

\* Requests of the second client address in the rate limiter's sequential runs.
MaxOther == 2

\* ------------------------------------------------------------------ values fixed in the source
RATE_WINDOW == 60
RATE_MAX    == 15

\* ------------------------------------------------------------------ inputs
\* Values of the ADMIN_TOKEN environment variable.
AdminSecrets == {"", "S3CRET"}

\* JSON bodies of POST /verify; the field values are raw, before .strip().upper().
NoBody    == [kind |-> "none"]
EmptyBody == [kind |-> "empty"]
Body(k, h) == [kind |-> "obj", key |-> k, hwid |-> h]
VerifyBodies ==
    {NoBody, EmptyBody,
     Body("", "h1"), Body(" k1 ", ""),
     Body(" k1 ", "h1"), Body("K2", "H1"),
     Body("K1", "H2"), Body("SRM-BAD", "H1")}

\* X-Admin-Token header and key field of the admin requests. The header arrives as
\* a str decoded from the bytes of the request; "WR\\xD3NG" stands for the bytes
\* 57 52 D3 4E 47, whose third character (O with acute accent) is not ASCII.
Call(t, k) == [token |-> t, key |-> k]
AdminCalls ==
    {Call("", "K1"), Call("WRONG", "K1"), Call("WR\\xD3NG", "K1"), Call("S3CRET", ""),
     Call("S3CRET", "K1"), Call("S3CRET", " k2 ")}
\* the strings above that hold a character beyond U+007F
NonAscii == {"WR\\xD3NG"}
\* hwid field of /admin/keys/create
CreateHwids == [K1 |-> {"H1", "H2"}, K2 |-> {"h1"}]
\* reason field of /admin/ban and /admin/deactivate
BanReasons   == {"", "CHARGEBACK"}
DeactReasons == {"EXPIRED"}

\* Client addresses (first entry of X-Forwarded-For, else the peer address). The
\* requests of the store runs all come from ClientAddress.
Addresses     == {"A", "B"}
ClientAddress == "A"

\* Seconds at which time.time() is read in the rate limiter's sequential runs: both
\* sides of the window's edge (1 is 59 s before 60, 0 is 60 s before it).
Instants == {0, 1, 60}

\* What the server holds at the start of the observed requests (the database
\* outlives the process): a fresh database; one in which K1 and K2 were created for
\* machine H1; one in which K1 was then banned (the ban read H1 from K1's row); and
\* the second one after RATE_MAX requests without a body from ClientAddress in the
\* second before; the second one after K1 was deactivated; and one in which K2 was
\* created for H1 and K1 was banned without being registered (the ban found no row
\* of K1 and recorded the empty hardware id).
IssuedRow(k, h, t) == [key |-> k, hwid |-> h, created_at |-> t, last_seen |-> <<>>]
BanRow(k, h, r, t) == [key |-> k, hwid |-> h, reason |-> r, banned_at |-> t]
Issued == {IssuedRow("K1", "H1", 0), IssuedRow("K2", "H1", 0)}
DeactRow(k, r, t)  == [key |-> k, reason |-> r, deactivated_at |-> t]
BanEntry(k, h)     == [key |-> k, hwid |-> h, live |-> TRUE]
Seed(k, b, d, l, n) == [keys |-> k, banned |-> b, deactivated |-> d, log |-> l, hits |-> n]
InitialStores ==
    {Seed({}, {}, {}, {}, 0),
     Seed(Issued, {}, {}, {}, 0),
     Seed(Issued, {BanRow("K1", "H1", "CHARGEBACK", 0)}, {}, {BanEntry("K1", "H1")}, 0),
     Seed(Issued, {}, {}, {}, RATE_MAX),
     Seed(Issued, {}, {DeactRow("K1", "EXPIRED", 0)}, {}, 0),
     Seed({IssuedRow("K2", "H1", 0)}, {BanRow("K1", "", "CHARGEBACK", 0)}, {},
          {BanEntry("K1", "")}, 0)}

\* ------------------------------------------------------------------ state
VARIABLES
    keys,         \* table keys:        rows [key, hwid, created_at, last_seen]
    banned,       \* table banned:      rows [key, hwid, reason, banned_at]
    deactivated,  \* table deactivated: rows [key, reason, deactivated_at]
    ADMIN_TOKEN,  \* configured admin secret
    clock,        \* wall clock in seconds, read by now_str()
    procs,        \* per worker: the request it is handling and where it stands
    last,         \* the request that returned most recently, with its response
    banLog,       \* history: the bans that returned ok, [key, hwid read by the ban, live];
                  \* unban/reactivate drop the entry when they return, delete marks it
                  \* not live when it returns
    deactLog,     \* history: the keys whose deactivate returned ok, with no unban,
                  \* reactivate or delete of the key having returned since
    _rate_limits, \* per client address: [hits: the timestamp list stored in the dict,
                  \* owner: the worker whose local variable `hits` is that same list
                  \* object, 0 if none]
    calls,        \* per worker: the is_rate_limited call it is running, [pc, ip, now, hits]
    admitted,     \* history: per client address, the timestamps of the admitted requests
    gate          \* history: the most recent answer of is_rate_limited, [ip, now, limited,
                  \* retry: the answer before it was a refusal of the same address]

vars == <<keys, banned, deactivated, ADMIN_TOKEN, clock, procs, last, banLog, deactLog,
          _rate_limits, calls, admitted, gate>>
store == <<keys, banned, deactivated>>
limiter == <<_rate_limits, calls, admitted, gate>>

\* ------------------------------------------------------------------ helpers
\* str(x).strip().upper() on the raw values above.
Normalize(raw) ==
    CASE raw = " k1 " -> "K1"
      [] raw = " k2 " -> "K2"
      [] raw = "h1"   -> "H1"
      [] OTHER        -> raw

\* key.replace(" ", "").upper().split("-")
SplitDash(key) ==
    CASE key = "K1"      -> <<"SRM", "AB12", "CD34", "EF56", "9A8B">>
      [] key = "K2"      -> <<"SRM", "GH78", "IJ90", "1C2D", "3E4F">>
      [] key = "SRM-BAD" -> <<"SRM", "BAD">>
      [] OTHER           -> <<key>>

\* hmac.new(LICENSE_SECRET, (rand + hwid).encode(), sha256).hexdigest()[:8].upper()
\* for the deployment's secret: K1 and K2 were both issued for machine H1.
HmacHex8(rand, hwid) ==
    CASE rand = <<"AB12", "CD34">> /\ hwid = "H1" -> <<"EF56", "9A8B">>
      [] rand = <<"GH78", "IJ90">> /\ hwid = "H1" -> <<"1C2D", "3E4F">>
      [] OTHER                                    -> <<"0000", hwid>>

verify_key_hmac(key, hwid) ==
    LET parts == SplitDash(key) IN
    IF Len(parts) # 5 \/ parts[1] # "SRM"
    THEN FALSE
    ELSE LET rand      == <<parts[2], parts[3]>>
             sig_given == <<parts[4], parts[5]>>
             sig_exp   == HmacHex8(rand, hwid)
         IN sig_given = sig_exp

\* now_str() is an argument of cur.execute: Python evaluates it before the statement
\* reaches the database, at some second between the moment the worker finished its
\* previous statement (since) and the moment the statement takes effect (the clock
\* of the step). The operator is the set of values the call can have returned.
now_str(since) == since..clock

\* NULL is the empty sequence, a value t is <<t>>.
NULL == <<>>

\* hmac.compare_digest(a, b) on two str values: it raises TypeError unless both
\* hold ASCII characters only, and compares them otherwise
IsAscii(x) == x \notin NonAscii
compare_digest(a, b) ==
    IF ~IsAscii(a) \/ ~IsAscii(b) THEN "TypeError"
    ELSE IF a = b THEN "True" ELSE "False"

\* ------------------------------------------------------------------ SQL statements
\* SELECT * FROM keys WHERE key = %s
SelectKey(key) == {r \in keys : r.key = key}

\* variant: the ban lookup matches by key only
SelectBan_ByKey(key, hwid) == {r \in banned : r.key = key}

\* variant: a ban row without hardware id matches every machine
SelectBan_AnyHwid(key, hwid) == {r \in banned : r.key = key \/ r.hwid = hwid \/ r.hwid = ""}
\* SELECT * FROM banned WHERE key = %s OR hwid = %s
SelectBan(key, hwid) == {r \in banned : r.key = key \/ r.hwid = hwid}

\* SELECT * FROM deactivated WHERE key = %s
SelectDeact(key) == {r \in deactivated : r.key = key}

\* variant: the last-seen write is an upsert that inserts a missing row
UpdateLastSeen_Upsert(key, hwid, now) ==
    IF \E r \in keys : r.key = key
    THEN {IF r.key = key THEN [r EXCEPT !.last_seen = <<now>>, !.hwid = hwid] ELSE r : r \in keys}
    ELSE keys \cup {[key |-> key, hwid |-> hwid, created_at |-> now, last_seen |-> <<now>>]}

\* UPDATE keys SET last_seen = %s, hwid = %s WHERE key = %s
UpdateLastSeen(key, hwid, now) ==
    {IF r.key = key THEN [r EXCEPT !.last_seen = <<now>>, !.hwid = hwid] ELSE r : r \in keys}

\* variant: the table has no primary key, a second row for a key is accepted
UniqueViolation_None(key) == FALSE
\* INSERT INTO keys ... VALUES (%s, %s, %s, NULL); the primary key rejects a second row
UniqueViolation(key) == \E r \in keys : r.key = key
InsertKey(key, hwid, now) ==
    keys \cup {[key |-> key, hwid |-> hwid, created_at |-> now, last_seen |-> NULL]}

\* variant: ON CONFLICT (key) DO NOTHING
UpsertBan_DoNothing(key, hwid, reason, now) ==
    IF \E r \in banned : r.key = key
    THEN banned
    ELSE banned \cup {[key |-> key, hwid |-> hwid, reason |-> reason, banned_at |-> now]}

\* variant: the conflict branch also overwrites hwid
UpsertBan_Rebind(key, hwid, reason, now) ==
    {r \in banned : r.key # key} \cup {BanRow(key, hwid, reason, now)}

\* INSERT INTO banned ... ON CONFLICT (key) DO UPDATE SET reason, banned_at
UpsertBan(key, hwid, reason, now) ==
    IF \E r \in banned : r.key = key
    THEN {IF r.key = key THEN [r EXCEPT !.reason = reason, !.banned_at = now] ELSE r : r \in banned}
    ELSE banned \cup {[key |-> key, hwid |-> hwid, reason |-> reason, banned_at |-> now]}

\* INSERT INTO deactivated ... ON CONFLICT (key) DO UPDATE SET reason, deactivated_at
UpsertDeact(key, reason, now) ==
    IF \E r \in deactivated : r.key = key
    THEN {IF r.key = key THEN [r EXCEPT !.reason = reason, !.deactivated_at = now] ELSE r
            : r \in deactivated}
    ELSE deactivated \cup {[key |-> key, reason |-> reason, deactivated_at |-> now]}

\* DELETE FROM <table> WHERE key = %s
DeleteKeys(key)   == {r \in keys : r.key # key}
DeleteBanned(key) == {r \in banned : r.key # key}
\* variant: the deactivation is removed only for a key that has a row in keys
DeleteDeact_Registered(key) ==
    {r \in deactivated : r.key # key \/ ~\E k \in keys : k.key = key}
DeleteDeact(key)  == {r \in deactivated : r.key # key}

\* ------------------------------------------------------------------ responses
Resp(status, valid, kind, reason) ==
    [status |-> status, valid |-> valid, kind |-> kind, reason |-> reason]

\* reason = row["reason"] or "Sin motivo"
ReasonOrDefault(reason) == IF reason = "" THEN "Sin motivo" ELSE reason

\* the message of a matching ban row: by key, or by hardware id only
BanMessage(ban_row, key) ==
    IF ban_row.key = key
    THEN Resp(200, FALSE, "banned", ReasonOrDefault(ban_row.reason))
    ELSE Resp(200, FALSE, "hwid_banned", "")

RespBadRequest   == Resp(400, FALSE, "bad_request", "")
RespMissing      == Resp(400, FALSE, "missing", "")
RespSigInvalid   == Resp(200, FALSE, "sig_invalid", "")
RespNotReg       == Resp(200, FALSE, "not_registered", "")
RespDeact(r)     == Resp(200, FALSE, "deactivated", ReasonOrDefault(r))
RespValid        == Resp(200, TRUE, "valid", "")
RespServerError  == Resp(500, FALSE, "server_error", "")
RespOk           == Resp(200, FALSE, "ok", "")
RespUnauthorized == Resp(401, FALSE, "unauthorized", "")
RespMissingKey   == Resp(400, FALSE, "missing", "")
RespConflict     == Resp(409, FALSE, "exists", "")
RespAdminError   == Resp(500, FALSE, "error", "")
RespTooMany      == Resp(429, FALSE, "rate_limited", "")
\* the framework's answer to an exception that no handler catches
RespInternalError == Resp(500, FALSE, "internal_error", "")
NoResp           == Resp(0, FALSE, "none", "")

\* The decorator require_admin: the answer it gives itself, or NoResp when it calls
\* the handler.
\*   if not ADMIN_TOKEN or not hmac.compare_digest(token, ADMIN_TOKEN): return 401
\* The comparison is not reached with an empty secret; its TypeError is caught
\* nowhere, so the request is answered 500.
require_admin(token) ==
    IF ADMIN_TOKEN = "" THEN RespUnauthorized
    ELSE LET same == compare_digest(token, ADMIN_TOKEN) IN
         IF same = "TypeError" THEN RespInternalError
         ELSE IF same = "False" THEN RespUnauthorized
         ELSE NoResp

\* variant: a failure of the final last-seen update is swallowed
OnException_Swallow(op, pc) ==
    IF op = "verify" THEN (IF pc = "v_update" THEN RespValid ELSE RespServerError)
    ELSE RespAdminError

\* the except branch of the handler whose statement pc raised
OnException(op, pc) == IF op = "verify" THEN RespServerError ELSE RespAdminError

\* ------------------------------------------------------------------ workers
Idle ==
    [pc |-> "idle", op |-> "none", key |-> "", hwid |-> "", reason |-> "", token |-> "",
     since |-> 0, at |-> "", fault |-> FALSE, resp |-> NoResp,
     dirty |-> FALSE, afterBan |-> FALSE, afterDeact |-> FALSE,
     preKey |-> FALSE, preBan |-> "none", preDeact |-> FALSE]

\* the statements that take now_str() as an argument
Timed(pc) == pc \in {"v_update", "c_insert", "b_upsert", "d_upsert"}

\* A request entering its try block at statement pc, in the step that makes the
\* clock `at`. since is the second from which the worker has been on its way to a
\* statement that stores the time. dirty, afterBan and pre* are history: whether
\* another request changed the store since this one started, whether it started
\* while a returned ban was in force, and what the store held for its key when it
\* started. A verification starts when the rate limiter has admitted it.
Begin(op, pc, key, hwid, reason, at) ==
    [pc |-> pc, op |-> op, key |-> key, hwid |-> hwid, reason |-> reason, token |-> "",
     since |-> (IF Timed(pc) THEN at ELSE 0),
     at |-> "", fault |-> FALSE, resp |-> NoResp,
     dirty |-> FALSE,
     afterBan |-> (op = "verify" /\ \E b \in banLog : b.key = key /\ b.live),
     afterDeact |-> (op = "verify" /\ key \in deactLog),
     preKey |-> (SelectKey(key) # {}),
     preBan |-> (IF \E r \in banned : r.key = key
                 THEN (CHOOSE r \in banned : r.key = key).reason ELSE "none"),
     preDeact |-> (SelectDeact(key) # {})]

Completed(rec, at, fault, resp) ==
    [op |-> rec.op, key |-> rec.key, hwid |-> rec.hwid, reason |-> rec.reason,
     token |-> rec.token,
     at |-> (IF rec.op = "verify" THEN at ELSE ""), fault |-> fault, dirty |-> rec.dirty, afterBan |-> rec.afterBan,
     afterDeact |-> rec.afterDeact,
     preKey |-> rec.preKey, preBan |-> rec.preBan, preDeact |-> rec.preDeact,
     resp |-> resp]

Removal(op) == op \in {"unban", "reactivate", "delete"}

\* One statement of worker p: the tables become nk, nb, nd; the worker continues
\* as rec (resp = NoResp), or the statement was its last and resp is the answer it
\* is going to give: what is left is cur.close(), conn.close() and the return (pc
\* "ret"), during which the other workers go on. `at` names the statement.
Step(p, rec, at, fault, nk, nb, nd, resp) ==
    LET changed == <<nk, nb, nd>> # store
        me      == procs[p]
        ends    == resp # NoResp
    IN
    /\ keys' = nk
    /\ banned' = nb
    /\ deactivated' = nd
    /\ procs' = [q \in Workers |->
                    IF q = p
                    THEN (IF ends
                          THEN [me EXCEPT !.pc = "ret", !.since = 0,
                                          !.at = at, !.fault = fault, !.resp = resp]
                          ELSE [rec EXCEPT !.since = IF Timed(rec.pc) THEN clock ELSE 0])
                    ELSE IF procs[q].pc \in {"idle", "ret"} THEN procs[q]
                    ELSE [procs[q] EXCEPT !.dirty = @ \/ changed]]
    /\ UNCHANGED <<last, banLog, deactLog, ADMIN_TOKEN, clock, limiter>>

\* cur.close(); conn.close(); return ..., or the return of the except branch: the
\* request is answered. From here on it counts as returned for the requests that
\* start later (banLog, deactLog), and a removal that returns ends the "banned
\* since" and "deactivated since" of the verifications in flight.
Return(p) ==
    LET me    == procs[p]
        lifts == Removal(me.op)
    IN
    /\ me.pc = "ret"
    /\ procs' = [q \in Workers |->
                    IF q = p THEN Idle
                    ELSE IF procs[q].pc = "idle" THEN procs[q]
                    ELSE [procs[q] EXCEPT
                            !.afterBan = @ /\ ~(lifts /\ procs[q].key = me.key),
                            !.afterDeact = @ /\ ~(lifts /\ procs[q].key = me.key)]]
    /\ last' = Completed(me, me.at, me.fault, me.resp)
    /\ banLog' =
         IF me.op = "ban" /\ me.resp = RespOk
         THEN {b \in banLog : b.key # me.key}
                \cup {[key |-> me.key, hwid |-> me.hwid, live |-> TRUE]}
         ELSE IF me.op \in {"unban", "reactivate"}
         THEN {b \in banLog : b.key # me.key}
         ELSE IF me.op = "delete"
         THEN {IF b.key = me.key THEN [b EXCEPT !.live = FALSE] ELSE b : b \in banLog}
         ELSE banLog
    /\ deactLog' =
         IF me.op = "deactivate" /\ me.resp = RespOk THEN deactLog \cup {me.key}
         ELSE IF lifts THEN deactLog \ {me.key}
         ELSE deactLog
    /\ UNCHANGED <<keys, banned, deactivated, ADMIN_TOKEN, clock, limiter>>

\* A request that is answered before it reaches the store.
Reject(p, op, key, hwid, reason, resp) ==
    /\ last' = Completed(Begin(op, "idle", key, hwid, reason, 0), "start", FALSE, resp)
    /\ procs' = [procs EXCEPT ![p] = Idle]
    /\ UNCHANGED <<keys, banned, deactivated, banLog, deactLog, ADMIN_TOKEN>>

\* A request that enters its try block.
Enter(p, op, pc, key, hwid, reason) ==
    /\ procs' = [procs EXCEPT ![p] = Begin(op, pc, key, hwid, reason, clock')]
    /\ UNCHANGED <<keys, banned, deactivated, last, banLog, deactLog, ADMIN_TOKEN>>

\* The same for an admin request; token is its X-Admin-Token header (history).
AdminReject(p, op, key, hwid, reason, token, resp) ==
    /\ last' = Completed([Begin(op, "idle", key, hwid, reason, 0) EXCEPT !.token = token],
                         "start", FALSE, resp)
    /\ UNCHANGED <<keys, banned, deactivated, procs, banLog, deactLog, ADMIN_TOKEN>>

AdminEnter(p, op, pc, key, hwid, reason, token) ==
    /\ procs' = [procs EXCEPT ![p] =
                   [Begin(op, pc, key, hwid, reason, clock') EXCEPT !.token = token]]
    /\ UNCHANGED <<keys, banned, deactivated, last, banLog, deactLog, ADMIN_TOKEN>>

Arrive(p) ==
    /\ procs[p].pc = "idle"
    /\ \A q \in Workers : q < p => procs[q].pc # "idle"
    /\ clock < MaxClock
    /\ clock' = clock + 1

\* the rate limiter after n admitted requests of address ip at second t
NoCall == [pc |-> "idle", ip |-> "", now |-> 0, hits |-> <<>>]
NoGate == [ip |-> "", now |-> 0, limited |-> FALSE, retry |-> FALSE]
Answer(ip, now, limited) ==
    [ip |-> ip, now |-> now, limited |-> limited, retry |-> (gate.ip = ip /\ gate.limited)]
Hits(n, t) == [i \in 1..n |-> t]
LimiterAfter(ip, n, t) ==
    /\ _rate_limits = [a \in Addresses |->
                         [hits |-> IF a = ip THEN Hits(n, t) ELSE <<>>, owner |-> 0]]
    /\ admitted = [a \in Addresses |-> IF a = ip THEN Hits(n, t) ELSE <<>>]
    /\ calls = [p \in Workers |-> NoCall]
    /\ gate = NoGate

Init ==
    /\ \E s \in InitialStores :
          /\ keys = s.keys /\ banned = s.banned /\ deactivated = s.deactivated
          /\ banLog = s.log
          /\ deactLog = {r.key : r \in s.deactivated}
          /\ LimiterAfter(ClientAddress, s.hits, 0)
    /\ ADMIN_TOKEN \in AdminSecrets
    /\ clock = 0
    /\ procs = [p \in Workers |-> Idle]
    /\ last = Completed(Idle, "start", FALSE, NoResp)


\* ------------------------------------------------------------------ rate limiter
\* everything but the rate limiter and the clock
service == <<keys, banned, deactivated, ADMIN_TOKEN, procs, last, banLog, deactLog>>

\* variant: a timestamp exactly RATE_WINDOW old still counts
Pruned_Inclusive(list, now) == SelectSeq(list, LAMBDA t : now - t <= RATE_WINDOW)

\* [t for t in _rate_limits.get(ip, []) if now - t < RATE_WINDOW]
Pruned(list, now) == SelectSeq(list, LAMBDA t : now - t < RATE_WINDOW)

\* is_rate_limited(ip) run at time now with no other call for ip in flight; limited
\* is its return value.
is_rate_limited(ip, now, limited) ==
    LET hits == Pruned(_rate_limits[ip].hits, now) IN
    /\ limited = (Len(hits) >= RATE_MAX)
    /\ _rate_limits' = [_rate_limits EXCEPT ![ip] =
                          [hits |-> IF limited THEN hits ELSE Append(hits, now), owner |-> 0]]
    /\ admitted' = IF limited THEN admitted ELSE [admitted EXCEPT ![ip] = Append(@, now)]
    /\ gate' = Answer(ip, now, limited)
    /\ UNCHANGED calls

\* The decorator of /verify on its own: the handler behind it does not touch the
\* limiter. Requests of the second address stop after MaxOther admissions.
rate_limit(ip) ==
    /\ ip # ClientAddress => Len(admitted[ip]) < MaxOther
    /\ \E limited \in BOOLEAN : is_rate_limited(ip, clock, limited)
    /\ UNCHANGED <<clock, service>>

\* time passes between two requests
Tick ==
    /\ \E t \in Instants : t > clock /\ clock' = t
    /\ UNCHANGED <<service, limiter>>

\* Sequential requests to the rate limiter, from the empty table of a fresh process.
InitRL ==
    /\ keys = {} /\ banned = {} /\ deactivated = {} /\ banLog = {} /\ deactLog = {}
    /\ ADMIN_TOKEN = "S3CRET"
    /\ procs = [p \in Workers |-> Idle]
    /\ last = Completed(Idle, "start", FALSE, NoResp)
    /\ clock = 0
    /\ LimiterAfter(ClientAddress, 0, 0)

NextRL ==
    \/ Tick
    \/ \E ip \in Addresses : rate_limit(ip)

SpecRL == InitRL /\ [][NextRL]_vars

\* ---- is_rate_limited statement by statement, for concurrent calls
\* the list object that the local variable hits of worker p refers to
HitsOf(p) ==
    LET c == calls[p] IN
    IF _rate_limits[c.ip].owner = p THEN _rate_limits[c.ip].hits ELSE c.hits

\* worker p returns: its local variables are gone
ReleasedBy(p, table) ==
    [a \in Addresses |-> IF table[a].owner = p THEN [table[a] EXCEPT !.owner = 0] ELSE table[a]]

\* The five definitions below say what a statement does to the limiter; the
\* actions of SpecRace and of Spec add what the step leaves alone.
\* now = time.time() of the call that worker p makes for address ip
IsRateLimitedNow(p, ip, now) ==
    /\ calls[p].pc = "idle"
    /\ calls' = [calls EXCEPT ![p] = [pc |-> "rl_prune", ip |-> ip, now |-> now, hits |-> <<>>]]
    /\ UNCHANGED <<_rate_limits, admitted, gate>>

\* hits = [t for t in _rate_limits.get(ip, []) if now - t < RATE_WINDOW]: a new list
IsRateLimitedPrune(p) ==
    /\ calls[p].pc = "rl_prune"
    /\ LET c == calls[p] IN
       calls' = [calls EXCEPT ![p] = [c EXCEPT !.pc = "rl_store",
                                               !.hits = Pruned(_rate_limits[c.ip].hits, c.now)]]
    /\ UNCHANGED <<_rate_limits, admitted, gate>>

\* _rate_limits[ip] = hits: the dict now refers to p's list; the list it referred to
\* before stays with the worker that still holds it
IsRateLimitedStore(p) ==
    /\ calls[p].pc = "rl_store"
    /\ LET c   == calls[p]
           old == _rate_limits[c.ip]
       IN /\ _rate_limits' = [_rate_limits EXCEPT ![c.ip] = [hits |-> c.hits, owner |-> p]]
          /\ calls' = [q \in Workers |->
                         IF q = p THEN [c EXCEPT !.pc = "rl_compare", !.hits = <<>>]
                         ELSE IF q = old.owner /\ calls[q].ip = c.ip
                         THEN [calls[q] EXCEPT !.hits = old.hits]
                         ELSE calls[q]]
    /\ UNCHANGED <<admitted, gate>>

\* if len(hits) >= RATE_MAX: return True. This is the last use of the local hits.
IsRateLimitedCompare(p) ==
    /\ calls[p].pc = "rl_compare"
    /\ LET c == calls[p] IN
       IF Len(HitsOf(p)) >= RATE_MAX
       THEN /\ calls' = [calls EXCEPT ![p] = NoCall]
            /\ _rate_limits' = ReleasedBy(p, _rate_limits)
            /\ gate' = Answer(c.ip, c.now, TRUE)
       ELSE /\ calls' = [calls EXCEPT ![p] = [c EXCEPT !.pc = "rl_append", !.hits = <<>>]]
            /\ _rate_limits' = ReleasedBy(p, _rate_limits)
            /\ gate' = gate
    /\ UNCHANGED admitted

\* _rate_limits[ip].append(now); return False: appends to the list the dict refers
\* to at this moment
IsRateLimitedAppend(p) ==
    /\ calls[p].pc = "rl_append"
    /\ LET c == calls[p] IN
       /\ _rate_limits' = [_rate_limits EXCEPT ![c.ip].hits = Append(@, c.now)]
       /\ calls' = [calls EXCEPT ![p] = NoCall]
       /\ admitted' = [admitted EXCEPT ![c.ip] = Append(@, c.now)]
       /\ gate' = Answer(c.ip, c.now, FALSE)

\* Concurrent requests to the rate limiter, one arriving per second from second 1
\* on, when the table holds n admissions of second t (n requests in a row at t).
RaceSeeds ==
    {<<0, 0>>, <<RATE_MAX - 1, 0>>, <<RATE_MAX, 0>>,
     <<RATE_MAX, 1 - RATE_WINDOW>>, <<RATE_MAX - 1, 2 - RATE_WINDOW>>}

InitRace ==
    /\ keys = {} /\ banned = {} /\ deactivated = {} /\ banLog = {} /\ deactLog = {}
    /\ ADMIN_TOKEN = "S3CRET"
    /\ procs = [p \in Workers |-> Idle]
    /\ last = Completed(Idle, "start", FALSE, NoResp)
    /\ clock = 0
    /\ \E s \in RaceSeeds : LimiterAfter(ClientAddress, s[1], s[2])

\* a request of the client address reaches the decorator of worker p
RaceArrive(p) ==
    /\ \A q \in Workers : q < p => calls[q].pc # "idle"
    /\ clock < MaxClock
    /\ clock' = clock + 1
    /\ IsRateLimitedNow(p, ClientAddress, clock + 1)
    /\ UNCHANGED service

RacePrune(p)   == IsRateLimitedPrune(p) /\ UNCHANGED <<clock, service>>
RaceStore(p)   == IsRateLimitedStore(p) /\ UNCHANGED <<clock, service>>
RaceCompare(p) == IsRateLimitedCompare(p) /\ UNCHANGED <<clock, service>>
RaceAppend(p)  == IsRateLimitedAppend(p) /\ UNCHANGED <<clock, service>>

NextRace ==
    \E p \in Workers :
        \/ RaceArrive(p)
        \/ RacePrune(p)
        \/ RaceStore(p)
        \/ RaceCompare(p)
        \/ RaceAppend(p)

SpecRace == InitRace /\ [][NextRace]_vars
\* ------------------------------------------------------------------ POST /verify
\* The decorator rate_limit runs is_rate_limited without a lock, so the statements
\* of two calls interleave with each other and with every other handler.
\* a request arrives: ip = ..., now = time.time()
VerifyArrive(p) ==
    /\ Arrive(p)
    /\ IsRateLimitedNow(p, ClientAddress, clock + 1)
    /\ procs' = [procs EXCEPT ![p] = [Idle EXCEPT !.pc = "v_limit", !.op = "verify"]]
    /\ UNCHANGED <<keys, banned, deactivated, last, banLog, deactLog, ADMIN_TOKEN>>

VerifyRatePrune(p) ==
    /\ procs[p].pc = "v_limit"
    /\ IsRateLimitedPrune(p)
    /\ UNCHANGED <<clock, service>>

VerifyRateStore(p) ==
    /\ procs[p].pc = "v_limit"
    /\ IsRateLimitedStore(p)
    /\ UNCHANGED <<clock, service>>

\* if is_rate_limited(ip): return ... 429
VerifyRateCompare(p) ==
    /\ procs[p].pc = "v_limit"
    /\ IsRateLimitedCompare(p)
    /\ UNCHANGED clock
    /\ IF calls'[p].pc = "idle"
       THEN Reject(p, "verify", "", "", "", RespTooMany)
       ELSE UNCHANGED service

\* the call returns False and verify() runs: body parsing, normalisation and the
\* HMAC check, no store access
VerifyStart(p) ==
    \E body \in VerifyBodies :
        /\ procs[p].pc = "v_limit"
        /\ IsRateLimitedAppend(p)
        /\ UNCHANGED clock
        /\ IF body.kind # "obj"
           THEN Reject(p, "verify", "", "", "", RespBadRequest)
           ELSE LET key  == Normalize(body.key)
                    hwid == Normalize(body.hwid)
                IN IF key = "" \/ hwid = ""
                   THEN Reject(p, "verify", key, hwid, "", RespMissing)
                   ELSE IF ~verify_key_hmac(key, hwid)
                   THEN Reject(p, "verify", key, hwid, "", RespSigInvalid)
                   ELSE Enter(p, "verify", "v_keys", key, hwid, "")

\* variant: the registration check is skipped, the ban check comes first
VerifySelectKey_NoCheck(p) ==
    /\ procs[p].pc = "v_keys"
    /\ Step(p, [procs[p] EXCEPT !.pc = "v_ban"], "v_keys", FALSE,
            keys, banned, deactivated, NoResp)

\* 2. does the key exist?
VerifySelectKey(p) ==
    /\ procs[p].pc = "v_keys"
    /\ LET me == procs[p] IN
       IF SelectKey(me.key) = {}
       THEN Step(p, me, "v_keys", FALSE, keys, banned, deactivated, RespNotReg)
       ELSE Step(p, [me EXCEPT !.pc = "v_ban"], "v_keys", FALSE, keys, banned, deactivated, NoResp)

\* variant: the deactivation check runs before the ban check
VerifySelectBan_DeactFirst(p) ==
    /\ procs[p].pc = "v_ban"
    /\ LET me    == procs[p]
           rows  == SelectBan(me.key, me.hwid)
           drows == SelectDeact(me.key)
       IN IF drows # {}
          THEN \E deact_row \in drows :
                  Step(p, me, "v_ban", FALSE, keys, banned, deactivated,
                       RespDeact(deact_row.reason))
          ELSE IF rows # {}
          THEN \E ban_row \in rows :
                  Step(p, me, "v_ban", FALSE, keys, banned, deactivated,
                       BanMessage(ban_row, me.key))
          ELSE Step(p, [me EXCEPT !.pc = "v_deact"], "v_ban", FALSE,
                    keys, banned, deactivated, NoResp)

\* 3. is the key banned? fetchone() returns any one of the matching rows
VerifySelectBan(p) ==
    /\ procs[p].pc = "v_ban"
    /\ LET me   == procs[p]
           rows == SelectBan(me.key, me.hwid)
       IN IF rows # {}
          THEN \E ban_row \in rows :
                  Step(p, me, "v_ban", FALSE, keys, banned, deactivated, BanMessage(ban_row, me.key))
          ELSE Step(p, [me EXCEPT !.pc = "v_deact"], "v_ban", FALSE, keys, banned, deactivated, NoResp)

\* 4. is the key deactivated?
VerifySelectDeact(p) ==
    /\ procs[p].pc = "v_deact"
    /\ LET me   == procs[p]
           rows == SelectDeact(me.key)
       IN IF rows # {}
          THEN \E deact_row \in rows :
                  Step(p, me, "v_deact", FALSE, keys, banned, deactivated, RespDeact(deact_row.reason))
          ELSE Step(p, [me EXCEPT !.pc = "v_update"], "v_deact", FALSE, keys, banned, deactivated, NoResp)

\* 5. all good: update last_seen
VerifyUpdate(p) ==
    /\ procs[p].pc = "v_update"
    /\ LET me == procs[p] IN
       \E now \in now_str(me.since) :
          Step(p, me, "v_update", FALSE, UpdateLastSeen(me.key, me.hwid, now), banned,
               deactivated, RespValid)

\* ------------------------------------------------------------------ /admin
\* require_admin, then the handler's own validation of the key
AdminStart(p, op, pc, reasons) ==
    \E call \in AdminCalls, reason \in reasons :
        /\ Arrive(p)
        /\ UNCHANGED limiter
        /\ LET key    == Normalize(call.key)
               denied == require_admin(call.token)
               why    == IF key = "" \/ denied # NoResp THEN "" ELSE reason
           IN IF denied # NoResp
              THEN AdminReject(p, op, key, "", why, call.token, denied)
              ELSE IF key = ""
              THEN AdminReject(p, op, key, "", why, call.token, RespMissingKey)
              ELSE AdminEnter(p, op, pc, key, "", why, call.token)

\* GET /admin/keys
AdminGetKeysStart(p) ==
    \E call \in AdminCalls :
        /\ Arrive(p)
        /\ UNCHANGED limiter
        /\ IF require_admin(call.token) # NoResp
           THEN AdminReject(p, "list", "", "", "", call.token, require_admin(call.token))
           ELSE AdminEnter(p, "list", "l_select", "", "", "", call.token)

\* SELECT * FROM keys; the rows go into the answer, which the model does not keep
AdminGetKeys(p) ==
    /\ procs[p].pc = "l_select"
    /\ Step(p, [procs[p] EXCEPT !.pc = "l_banned"], "l_select", FALSE,
            keys, banned, deactivated, NoResp)

\* SELECT * FROM banned
AdminGetKeysBanned(p) ==
    /\ procs[p].pc = "l_banned"
    /\ Step(p, [procs[p] EXCEPT !.pc = "l_deact"], "l_banned", FALSE,
            keys, banned, deactivated, NoResp)

\* SELECT * FROM deactivated; return jsonify(...)
AdminGetKeysDeact(p) ==
    /\ procs[p].pc = "l_deact"
    /\ Step(p, procs[p], "l_deact", FALSE, keys, banned, deactivated, RespOk)

\* POST /admin/keys/create
AdminCreateStart(p) ==
    \E call \in AdminCalls, rawh \in {""} \cup CreateHwids.K1 \cup CreateHwids.K2 :
        /\ Arrive(p)
        /\ UNCHANGED limiter
        /\ LET key  == Normalize(call.key)
               hwid == Normalize(rawh)
           IN \/ /\ require_admin(call.token) # NoResp
                 /\ rawh = ""
                 /\ AdminReject(p, "create", key, hwid, "", call.token,
                                require_admin(call.token))
              \/ /\ require_admin(call.token) = NoResp
                 /\ key = "" \/ hwid = ""
                 /\ key = "" => hwid = ""
                 /\ AdminReject(p, "create", key, hwid, "", call.token, RespMissingKey)
              \/ /\ require_admin(call.token) = NoResp
                 /\ key # "" /\ rawh \in CreateHwids[key]
                 /\ AdminEnter(p, "create", "c_insert", key, hwid, "", call.token)

AdminCreateInsert(p) ==
    /\ procs[p].pc = "c_insert"
    /\ LET me == procs[p] IN
       IF UniqueViolation(me.key)
       THEN Step(p, me, "c_insert", FALSE, keys, banned, deactivated, RespConflict)
       ELSE \E now \in now_str(me.since) :
               Step(p, me, "c_insert", FALSE, InsertKey(me.key, me.hwid, now), banned,
                    deactivated, RespOk)

\* POST /admin/ban
AdminBanStart(p) == AdminStart(p, "ban", "b_select", BanReasons)

\* SELECT hwid FROM keys WHERE key = %s; hwid = row["hwid"] if row else ""
AdminBanSelect(p) ==
    /\ procs[p].pc = "b_select"
    /\ LET me   == procs[p]
           rows == SelectKey(me.key)
           hwid == IF rows # {} THEN (CHOOSE r \in rows : TRUE).hwid ELSE ""
       IN Step(p, [me EXCEPT !.pc = "b_deldeact", !.hwid = hwid], "b_select", FALSE,
               keys, banned, deactivated, NoResp)

\* variant: the ban leaves the deactivation in place
AdminBanDeleteDeact_Skip(p) ==
    /\ procs[p].pc = "b_deldeact"
    /\ Step(p, [procs[p] EXCEPT !.pc = "b_upsert"], "b_deldeact", FALSE,
            keys, banned, deactivated, NoResp)

AdminBanDeleteDeact(p) ==
    /\ procs[p].pc = "b_deldeact"
    /\ LET me == procs[p] IN
       Step(p, [me EXCEPT !.pc = "b_upsert"], "b_deldeact", FALSE,
            keys, banned, DeleteDeact(me.key), NoResp)

AdminBanUpsert(p) ==
    /\ procs[p].pc = "b_upsert"
    /\ LET me == procs[p] IN
       \E now \in now_str(me.since) :
          Step(p, me, "b_upsert", FALSE, keys, UpsertBan(me.key, me.hwid, me.reason, now),
               deactivated, RespOk)

\* POST /admin/unban
AdminUnbanStart(p) == AdminStart(p, "unban", "u_delete", {""})

AdminUnban(p) ==
    /\ procs[p].pc = "u_delete"
    /\ LET me == procs[p] IN
       Step(p, me, "u_delete", FALSE, keys, DeleteBanned(me.key), deactivated, RespOk)

\* POST /admin/deactivate
AdminDeactivateStart(p) == AdminStart(p, "deactivate", "d_upsert", DeactReasons)

AdminDeactivate(p) ==
    /\ procs[p].pc = "d_upsert"
    /\ LET me == procs[p] IN
       \E now \in now_str(me.since) :
          Step(p, me, "d_upsert", FALSE, keys, banned, UpsertDeact(me.key, me.reason, now),
               RespOk)

\* POST /admin/reactivate
AdminReactivateStart(p) == AdminStart(p, "reactivate", "r_deldeact", {""})

AdminReactivateDeleteDeact(p) ==
    /\ procs[p].pc = "r_deldeact"
    /\ LET me == procs[p] IN
       Step(p, [me EXCEPT !.pc = "r_delban"], "r_deldeact", FALSE,
            keys, banned, DeleteDeact(me.key), NoResp)

AdminReactivateDeleteBan(p) ==
    /\ procs[p].pc = "r_delban"
    /\ LET me == procs[p] IN
       Step(p, me, "r_delban", FALSE, keys, DeleteBanned(me.key), deactivated, RespOk)

\* POST /admin/delete
AdminDeleteStart(p) == AdminStart(p, "delete", "x_keys", {""})

AdminDeleteKeys(p) ==
    /\ procs[p].pc = "x_keys"
    /\ LET me == procs[p] IN
       Step(p, [me EXCEPT !.pc = "x_ban"], "x_keys", FALSE,
            DeleteKeys(me.key), banned, deactivated, NoResp)

AdminDeleteBanned(p) ==
    /\ procs[p].pc = "x_ban"
    /\ LET me == procs[p] IN
       Step(p, [me EXCEPT !.pc = "x_deact"], "x_ban", FALSE,
            keys, DeleteBanned(me.key), deactivated, NoResp)

\* variant: delete of a key that had no row in keys answers with an error
AdminDeleteDeact_NotFound(p) ==
    /\ procs[p].pc = "x_deact"
    /\ LET me == procs[p] IN
       Step(p, me, "x_deact", FALSE, keys, banned, DeleteDeact(me.key),
            IF me.preKey THEN RespOk ELSE RespAdminError)

AdminDeleteDeact(p) ==
    /\ procs[p].pc = "x_deact"
    /\ LET me == procs[p] IN
       Step(p, me, "x_deact", FALSE, keys, banned, DeleteDeact(me.key), RespOk)

\* ------------------------------------------------------------------ storage fault
\* The tables that the statement worker `me` is about to run can leave behind when
\* the database applies it. The connection is in autocommit mode, so the effect
\* stays when the call raises afterwards.
Applied(me) ==
    CASE me.pc = "v_update" ->
           {<<UpdateLastSeen(me.key, me.hwid, now), banned, deactivated>> :
               now \in now_str(me.since)}
      [] me.pc = "c_insert" ->
           IF UniqueViolation(me.key) THEN {}
           ELSE {<<InsertKey(me.key, me.hwid, now), banned, deactivated>> :
                    now \in now_str(me.since)}
      [] me.pc = "b_deldeact" -> {<<keys, banned, DeleteDeact(me.key)>>}
      [] me.pc = "b_upsert" ->
           {<<keys, UpsertBan(me.key, me.hwid, me.reason, now), deactivated>> :
               now \in now_str(me.since)}
      [] me.pc = "u_delete" -> {<<keys, DeleteBanned(me.key), deactivated>>}
      [] me.pc = "d_upsert" ->
           {<<keys, banned, UpsertDeact(me.key, me.reason, now)>> :
               now \in now_str(me.since)}
      [] me.pc = "r_deldeact" -> {<<keys, banned, DeleteDeact(me.key)>>}
      [] me.pc = "r_delban" -> {<<keys, DeleteBanned(me.key), deactivated>>}
      [] me.pc = "x_keys" -> {<<DeleteKeys(me.key), banned, deactivated>>}
      [] me.pc = "x_ban" -> {<<keys, DeleteBanned(me.key), deactivated>>}
      [] me.pc = "x_deact" -> {<<keys, banned, DeleteDeact(me.key)>>}
      [] OTHER -> {}

\* get_db(), the statement the worker is about to run, or the cur.close() and
\* conn.close() behind it raises, and the handler's except branch answers. The
\* exception comes before the database applied the statement (no effect) or after
\* it (the effect stays).
StorageFault(p) ==
    /\ procs[p].pc \notin {"idle", "v_limit", "ret"}
    /\ LET me == procs[p] IN
       \E after \in {store} \cup Applied(me) :
          Step(p, me, me.pc, TRUE, after[1], after[2], after[3], OnException(me.op, me.pc))

\* ------------------------------------------------------------------ specification
Next ==
    \E p \in Workers :
        \/ VerifyArrive(p)
        \/ VerifyRatePrune(p)
        \/ VerifyRateStore(p)
        \/ VerifyRateCompare(p)
        \/ VerifyStart(p)
        \/ VerifySelectKey(p)
        \/ VerifySelectBan(p)
        \/ VerifySelectDeact(p)
        \/ VerifyUpdate(p)
        \/ AdminGetKeysStart(p)
        \/ AdminGetKeys(p)
        \/ AdminGetKeysBanned(p)
        \/ AdminGetKeysDeact(p)
        \/ AdminCreateStart(p)
        \/ AdminCreateInsert(p)
        \/ AdminBanStart(p)
        \/ AdminBanSelect(p)
        \/ AdminBanDeleteDeact(p)
        \/ AdminBanUpsert(p)
        \/ AdminUnbanStart(p)
        \/ AdminUnban(p)
        \/ AdminDeactivateStart(p)
        \/ AdminDeactivate(p)
        \/ AdminReactivateStart(p)
        \/ AdminReactivateDeleteDeact(p)
        \/ AdminReactivateDeleteBan(p)
        \/ AdminDeleteStart(p)
        \/ AdminDeleteKeys(p)
        \/ AdminDeleteBanned(p)
        \/ AdminDeleteDeact(p)
        \/ StorageFault(p)
        \/ Return(p)

Spec == Init /\ [][Next]_vars


\* ------------------------------------------------------------------ properties
\* Worker p ran a statement in this step; it ran its last statement, which fixes
\* its answer procs'[p].resp; it sent its answer. (A statement on the database: the
\* steps of the rate limiter do not count.)
InHandler(p) == procs[p].pc \notin {"idle", "v_limit", "ret"}
Moved(p)    == InHandler(p) /\ procs'[p].pc # procs[p].pc
Returned(p) == InHandler(p) /\ procs'[p].pc = "ret"
Replied(p)  == procs[p].pc = "ret" /\ procs'[p].pc = "idle"
\* a request was answered before it reached the store
Rejected    ==
    \/ clock' # clock /\ procs' = procs
    \/ \E p \in Workers : procs[p].pc = "v_limit" /\ procs'[p].pc = "idle"
\* worker p returned from an undisturbed, fault-free run of handler op
Clean(p, op) == Returned(p) /\ procs[p].op = op /\ ~procs[p].dirty /\ ~procs'[p].fault

KeyNames(rows) == {r.key : r \in rows}
HasBan(key)    == \E r \in banned : r.key = key
InBoth(key)    == HasBan(key) /\ SelectDeact(key) # {}

\* The responses the ordered checks allow for (key, hwid) on the current store:
\* missing, signature, registration, ban (any matching row), deactivation, valid.
ExpectedVerify(key, hwid) ==
    IF key = "" \/ hwid = "" THEN {RespMissing}
    ELSE IF ~verify_key_hmac(key, hwid) THEN {RespSigInvalid}
    ELSE IF SelectKey(key) = {} THEN {RespNotReg}
    ELSE IF SelectBan(key, hwid) # {}
         THEN {BanMessage(r, key) : r \in SelectBan(key, hwid)}
    ELSE IF SelectDeact(key) # {}
         THEN {RespDeact(r.reason) : r \in SelectDeact(key)}
    ELSE {RespValid}

\* C1: a verify that carries a JSON object and runs without a storage fault and
\* without another request changing the store meanwhile answers with the outcome of
\* the first failing check in the order missing field, signature, not registered,
\* ban, deactivation, and valid otherwise.
C1_CheckOrder ==
    [][ /\ (Rejected /\ last'.op = "verify" /\ last'.resp \notin {RespBadRequest, RespTooMany})
            => last'.resp \in ExpectedVerify(last'.key, last'.hwid)
        /\ \A p \in Workers :
              Clean(p, "verify") => procs'[p].resp \in ExpectedVerify(procs[p].key, procs[p].hwid)
      ]_vars

\* C1 witness: a registered key that was banned and deactivated got the ban reason.
C1_Witness ==
    /\ last.op = "verify" /\ ~last.dirty /\ ~last.fault
    /\ last.preKey /\ last.preBan # "none" /\ last.preDeact
    /\ last.resp.kind = "banned"

\* C2 (as claimed): a correctly signed key without IssuedKeyRecord that has a ban
\* or deactivation is answered with the ban/deactivation reason.
C2_BanBeforeNotRegistered ==
    [][ \A p \in Workers :
          ( /\ Clean(p, "verify")
            /\ SelectKey(procs[p].key) = {}
            /\ SelectBan(procs[p].key, procs[p].hwid) # {} \/ SelectDeact(procs[p].key) # {} )
          => procs'[p].resp.kind \in {"banned", "hwid_banned", "deactivated"}
      ]_vars

\* C2 (amended): "not registered" takes priority over the ban and deactivation
\* messages: such a key is answered "key not registered".
C2_NotRegisteredFirst ==
    [][ \A p \in Workers :
          ( /\ Clean(p, "verify")
            /\ SelectKey(procs[p].key) = {}
            /\ SelectBan(procs[p].key, procs[p].hwid) # {} \/ SelectDeact(procs[p].key) # {} )
          => procs'[p].resp = RespNotReg
      ]_vars

\* C2 witness: an unregistered, banned key was answered "not registered".
C2_Witness ==
    /\ last.op = "verify" /\ ~last.dirty /\ ~last.fault
    /\ ~last.preKey /\ last.preBan # "none"
    /\ last.resp = RespNotReg

\* C3: a verify of a key that started after ban(key) returned ok, with no unban,
\* reactivate or delete of the key having returned before the verify returns and no
\* unban or reactivate of the key under way (its DELETE may have lifted the ban),
\* answers valid=false; and no statement of a verify changes the ban table.
C3_BanHolds ==
    [][ \A p \in Workers :
          /\ ( /\ Replied(p) /\ procs[p].op = "verify" /\ procs[p].afterBan
               /\ \A q \in Workers \ {p} :
                     ~(procs[q].op \in {"unban", "reactivate"} /\ procs[q].key = procs[p].key) )
             => ~last'.resp.valid
          /\ (Moved(p) /\ procs[p].op = "verify") => banned' = banned
      ]_vars

\* C4: a verify that met a storage fault, at whichever statement, answers
\* valid=false with the generic server error.
C4_FailClosed ==
    (last.op = "verify" /\ last.fault) => (~last.resp.valid /\ last.resp = RespServerError)

\* C4 witness: the fault hit the final last-seen update, after all checks passed.
C4_Witness ==
    last.op = "verify" /\ last.fault /\ last.at = "v_update" /\ ~last.resp.valid

\* C5 (as claimed): after a verify of a correctly signed key that has no record and
\* is neither banned nor deactivated, the issued set holds the key bound to the hwid.
C5_ImplicitRegistration ==
    [][ \A p \in Workers :
          ( /\ Clean(p, "verify")
            /\ SelectKey(procs[p].key) = {}
            /\ SelectBan(procs[p].key, procs[p].hwid) = {}
            /\ SelectDeact(procs[p].key) = {} )
          => \E r \in keys' : r.key = procs[p].key /\ r.hwid = procs[p].hwid
      ]_vars

\* C5 (amended): verification never creates an IssuedKeyRecord: no statement of a
\* verify changes which keys are registered, and a correctly signed key without a
\* record is answered "not registered".
C5_NoImplicitRegistration ==
    [][ \A p \in Workers :
          /\ (Moved(p) /\ procs[p].op = "verify") => KeyNames(keys') = KeyNames(keys)
          /\ (Clean(p, "verify") /\ SelectKey(procs[p].key) = {})
                => (procs'[p].resp = RespNotReg /\ keys' = keys)
      ]_vars

\* C5 witness: a correctly signed, unregistered, unbanned key was refused and is
\* still unregistered.
C5_Witness ==
    /\ last.op = "verify" /\ ~last.dirty /\ ~last.fault
    /\ ~last.preKey /\ last.preBan = "none" /\ ~last.preDeact
    /\ last.resp = RespNotReg
    /\ SelectKey(last.key) = {}

\* C6 (as claimed): once ban(K1) returned having read hardware id H for K1, and until
\* an unban or reactivate of K1 returns, no verify of another key presented with H,
\* run while no other request is in flight, is approved, whether or not a delete(K1)
\* returned meanwhile.
C6_HwidBanOutlivesDelete ==
    [][ \A p \in Workers :
          ( /\ Clean(p, "verify") /\ procs'[p].resp.valid
            /\ \A q \in Workers \ {p} : procs[q].pc = "idle" )
          => ~\E b \in banLog : b.key # procs[p].key /\ b.hwid = procs[p].hwid
      ]_vars

\* C6 (amended): a hardware-id ban lasts as long as its BanRecord: a verify that
\* reads the ban table while another key's BanRecord carries the presented hwid is
\* rejected as banned, and delete(key) removes the key's BanRecord.
C6_HwidBanWhileRecorded ==
    [][ \A p \in Workers :
          /\ ( /\ Moved(p) /\ procs[p].pc = "v_ban" /\ ~procs'[p].fault
               /\ \E r \in banned : r.key # procs[p].key /\ r.hwid = procs[p].hwid )
             => (Returned(p) /\ procs'[p].resp.kind \in {"banned", "hwid_banned"})
          /\ (Moved(p) /\ procs[p].pc = "x_ban" /\ procs'[p].pc = "x_deact")
             => ~\E r \in banned' : r.key = procs[p].key
      ]_vars

\* C6 witness: a registered key that has no ban of its own was rejected because
\* another key's ban carries its hardware id.
C6_Witness ==
    /\ last.op = "verify" /\ ~last.dirty /\ last.preKey /\ last.preBan = "none"
    /\ last.resp.kind = "hwid_banned"
    /\ \E r \in banned : r.key # last.key /\ r.hwid = last.hwid

\* C7 (as claimed): no key is in both the ban set and the deactivation set.
C7_MutuallyExclusive == \A r \in banned : SelectDeact(r.key) = {}

\* C7 (amended): a key comes to be in both sets only by the upsert of a
\* deactivate(key), or by the upsert of a ban(key) during which another request
\* wrote to the store; a ban that runs undisturbed never leaves its key in both.
C7_OverlapOnlyByDeactivate ==
    [][ \A k \in KeyNames(banned') :
          (~InBoth(k) /\ InBoth(k)')
          => \E p \in Workers :
                /\ Returned(p) /\ procs[p].key = k
                /\ \/ procs[p].pc = "d_upsert"
                   \/ procs[p].pc = "b_upsert" /\ procs[p].dirty
      ]_vars

\* C7 witness: deactivate of a banned key left the key in both sets.
C7_Witness ==
    /\ last.op = "deactivate" /\ last.resp = RespOk /\ last.preBan # "none"
    /\ InBoth(last.key)

\* C8: the ban table never holds two rows of one key, and when ban(key, r) returns
\* ok the key's single row carries r and the time that call read for its upsert (a
\* second between the end of its previous statement and the upsert), also when the
\* key was banned before with another reason.
C8_BanIdempotent ==
    [][ /\ \A k \in KeyNames(banned') : Cardinality({r \in banned' : r.key = k}) = 1
        /\ \A p \in Workers :
              (Returned(p) /\ procs[p].pc = "b_upsert" /\ ~procs'[p].fault)
              => \A r \in banned' :
                    r.key = procs[p].key
                    => /\ r.reason = procs[p].reason
                       /\ r.banned_at \in now_str(procs[p].since)
                       /\ procs'[p].resp = RespOk
      ]_vars

\* C8 witness: a second ban with another reason returned, and the row carries the
\* second reason and the second call's time: later than the first ban's (second 0)
\* and, another request having arrived before the upsert ran, older than the clock.
C8_Witness ==
    /\ last.op = "ban" /\ last.resp = RespOk
    /\ last.preBan \notin {"none", last.reason}
    /\ \E r \in banned : /\ r.key = last.key /\ r.reason = last.reason
                         /\ r.banned_at > 0 /\ r.banned_at < clock

\* C9: after deactivate(key), a ban(key) that runs to its end undisturbed leaves no
\* DeactivationRecord and a BanRecord for key, registered or not.
C9_BanClearsDeactivation ==
    [][ \A p \in Workers :
          (Clean(p, "ban") /\ procs[p].pc = "b_upsert")
          => ( /\ ~\E r \in deactivated' : r.key = procs[p].key
               /\ \E r \in banned' : r.key = procs[p].key )
      ]_vars

\* C9 witness: the ban of a deactivated key that has no IssuedKeyRecord returned.
C9_Witness ==
    /\ last.op = "ban" /\ last.resp = RespOk /\ ~last.dirty
    /\ last.preDeact /\ ~last.preKey
    /\ SelectDeact(last.key) = {} /\ HasBan(last.key)

\* the rows a removal is about were absent when the request started
Absent(rec) ==
    CASE rec.op = "unban"      -> rec.preBan = "none"
      [] rec.op = "reactivate" -> rec.preBan = "none" /\ ~rec.preDeact
      [] rec.op = "delete"     -> rec.preBan = "none" /\ ~rec.preDeact /\ ~rec.preKey
      [] OTHER                 -> FALSE

\* nothing is left of what removal op removes for key
Removed(op, key) ==
    /\ ~HasBan(key)
    /\ op \in {"reactivate", "delete"} => SelectDeact(key) = {}
    /\ op = "delete" => SelectKey(key) = {}

\* C10: an undisturbed unban, reactivate or delete whose target rows are absent
\* changes none of the three tables and returns ok; and when any of them returns,
\* its target rows are gone, so that repeating it at once is such a no-op.
C10_RemovalsIdempotent ==
    [][ \A p \in Workers :
          /\ (Moved(p) /\ Removal(procs[p].op) /\ ~procs[p].dirty /\ Absent(procs[p]))
                => store' = store
          /\ (Returned(p) /\ Removal(procs[p].op) /\ ~procs'[p].fault)
                => procs'[p].resp = RespOk
          /\ \A op \in {procs[p].op}, key \in {procs[p].key} :
                (Clean(p, op) /\ Removal(op)) => Removed(op, key)'
      ]_vars

\* C10 witness: delete of a key that is in none of the three tables returned ok.
C10_Witness ==
    /\ last.op = "delete" /\ last.resp = RespOk /\ ~last.dirty /\ Absent(last)
    /\ Removed("delete", last.key)

\* C11: a create whose INSERT runs while the key has a row in keys answers 409 and
\* changes none of the three tables; one whose INSERT runs while the key has none
\* answers ok and adds exactly that row, created at a second the call read. When
\* two creates of the same absent key run concurrently, exactly one of them answers
\* ok and the other 409.
C11_CreateConflict ==
    [][ \A p \in Workers :
          /\ (Returned(p) /\ procs[p].pc = "c_insert" /\ ~procs'[p].fault)
                => IF \E r \in keys : r.key = procs[p].key
                   THEN procs'[p].resp = RespConflict /\ store' = store
                   ELSE /\ procs'[p].resp = RespOk
                        /\ \E t \in now_str(procs[p].since) :
                              keys' = keys \cup {IssuedRow(procs[p].key, procs[p].hwid, t)}
                        /\ banned' = banned /\ deactivated' = deactivated
          /\ ( /\ Returned(p) /\ procs[p].pc = "c_insert" /\ ~procs'[p].fault
               /\ ~procs[p].preKey
               /\ \A q \in Workers \ {p} : procs[q].pc = "idle"
               /\ last.op = "create" /\ last.key = procs[p].key
               /\ ~last.preKey /\ ~last.fault
               /\ last.resp \notin {RespUnauthorized, RespInternalError, RespMissingKey} )
                => {last.resp, procs'[p].resp} = {RespOk, RespConflict}
          /\ \A q \in Workers \ {p} :
                ( /\ Returned(p) /\ procs[p].pc = "c_insert" /\ ~procs'[p].fault
                  /\ ~procs[p].preKey
                  /\ procs[q].pc = "ret" /\ procs[q].op = "create"
                  /\ procs[q].key = procs[p].key
                  /\ ~procs[q].preKey /\ ~procs[q].fault )
                => {procs[q].resp, procs'[p].resp} = {RespOk, RespConflict}
      ]_vars

\* C11 witness: of two concurrent creates of an absent key, the one whose INSERT ran
\* second returned 409, and the row is the one the first create wrote.
C11_Witness ==
    /\ last.op = "create" /\ last.resp = RespConflict
    /\ ~last.preKey /\ last.dirty
    /\ \E r \in keys : r.key = last.key /\ r.hwid # last.hwid /\ r.last_seen = NULL

\* the admitted requests of address ip that are less than RATE_WINDOW old at time now
InWindow(ip, now) == SelectSeq(admitted[ip], LAMBDA t : now - t < RATE_WINDOW)

\* C12: in a sequence of requests, one after the other, a request of an address is
\* admitted iff fewer than RATE_MAX of that address's admitted requests are less
\* than RATE_WINDOW seconds old; an admitted request adds its timestamp to the
\* address's list and a refused one adds nothing; and neither changes the list or
\* the admissions of another address.
C12_SlidingWindow ==
    [][ \A ip \in Addresses :
          (clock' = clock /\ gate'.ip = ip /\ limiter' # limiter)
          => /\ gate'.limited = ~(Len(InWindow(ip, clock)) < RATE_MAX)
             /\ _rate_limits'[ip].hits =
                   IF gate'.limited THEN InWindow(ip, clock)
                   ELSE Append(InWindow(ip, clock), clock)
             /\ admitted'[ip] = IF gate'.limited THEN admitted[ip] ELSE Append(admitted[ip], clock)
             /\ \A a \in Addresses \ {ip} :
                   _rate_limits'[a] = _rate_limits[a] /\ admitted'[a] = admitted[a]
      ]_vars

\* C12 witness: RATE_MAX requests of an address were admitted in seconds 0 and 1,
\* the next was refused, and its retry at second 60, RATE_WINDOW after the oldest
\* admission and 59 s after the newest, was admitted; the other address was admitted
\* in between.
C12_Witness ==
    /\ gate = [ip |-> ClientAddress, now |-> RATE_WINDOW, limited |-> FALSE, retry |-> TRUE]
    /\ Len(admitted[ClientAddress]) = RATE_MAX + 1
    /\ admitted[ClientAddress][1] = 0
    /\ admitted[ClientAddress][RATE_MAX] = 1
    /\ Len(_rate_limits[ClientAddress].hits) < RATE_MAX
    /\ admitted["B"] # <<>>

\* how often timestamp t occurs in list
Count(list, t) == Cardinality({i \in 1..Len(list) : list[i] = t})

\* C13: with concurrent is_rate_limited calls for one address, in every
\* interleaving of their statements, no admitted request's timestamp that is less
\* than RATE_WINDOW old is missing from the address's list, and no interval of
\* RATE_WINDOW seconds holds more than RATE_MAX admitted requests.
C13_ConcurrentSafe ==
    \A ip \in Addresses :
        /\ \A i \in 1..Len(admitted[ip]) :
              clock - admitted[ip][i] < RATE_WINDOW
              => Count(_rate_limits[ip].hits, admitted[ip][i]) >= Count(admitted[ip], admitted[ip][i])
        /\ \A i \in 1..Len(admitted[ip]) :
              Cardinality({j \in 1..Len(admitted[ip]) :
                              /\ admitted[ip][j] >= admitted[ip][i]
                              /\ admitted[ip][j] - admitted[ip][i] < RATE_WINDOW}) <= RATE_MAX

\* C14: no statement of a verify changes the ban or deactivation table; the DELETE
\* FROM keys of a delete leaves the key without IssuedKeyRecord; and from then on
\* only the INSERT of a create gives a key a record again, so a verify whose
\* last-seen write runs after the delete does not bring the record back.
C14_VerifyOverwritesNothing ==
    [][ /\ \A p \in Workers :
              (Moved(p) /\ procs[p].op = "verify")
              => (banned' = banned /\ deactivated' = deactivated)
        /\ \A p \in Workers :
              (procs[p].pc = "x_keys" /\ procs'[p].pc = "x_ban")
              => procs[p].key \notin KeyNames(keys')
        /\ \A k \in KeyNames(keys') \ KeyNames(keys) :
              \E p \in Workers : procs[p].pc = "c_insert" /\ procs[p].key = k /\ Returned(p)
      ]_vars

\* C14 witness: a verify passed all its checks while the key had its record, ran
\* its last-seen write after a delete had removed the record, and the key is
\* without record when both have returned.
C14_Witness ==
    /\ last.op = "verify" /\ last.at = "v_update" /\ ~last.fault /\ last.dirty
    /\ last.preKey /\ SelectKey(last.key) = {}
    /\ \A p \in Workers : procs[p].pc = "idle"

AdminOps == {"list", "create", "ban", "unban", "deactivate", "reactivate", "delete"}

\* C15: an admin request (list, create, ban, unban, deactivate, reactivate, delete)
\* whose X-Admin-Token header is missing or differs from the configured secret, or
\* that arrives while the configured secret is empty, is answered 401 without
\* entering its handler, and the three tables are unchanged.
C15_Unauthorized ==
    [][ /\ (Rejected /\ last'.op \in AdminOps
               /\ (ADMIN_TOKEN = "" \/ last'.token # ADMIN_TOKEN))
             => (last'.resp = RespUnauthorized /\ store' = store)
        /\ \A p \in Workers :
              procs'[p].op \in AdminOps
              => (ADMIN_TOKEN # "" /\ procs'[p].token = ADMIN_TOKEN)
      ]_vars

\* C16: a verify of a key that started after deactivate(key) returned ok, with no
\* unban, reactivate or delete of the key having returned since or being in flight,
\* answers valid=false, whatever a ban of the key does meanwhile and also when that
\* ban stops at a storage fault.
C16_DeactivationHolds ==
    [][ \A p \in Workers :
          ( /\ Replied(p) /\ procs[p].op = "verify" /\ procs[p].afterDeact
            /\ \A q \in Workers \ {p} : ~(Removal(procs[q].op) /\ procs[q].key = procs[p].key) )
          => ~last'.resp.valid
      ]_vars

\* C17: a verify refused by the rate limiter or answered before its try block
\* changes none of the three tables, and the signature failure is such an answer: no
\* statement ran; of the statements of a verify only the last-seen write that ends
\* it with valid=true changes a table, so a verify that ends with valid=false has
\* changed nothing; and that write leaves ban and deactivation tables, the number
\* and keys of the issued records, every other key's record and the key's
\* created_at as they are.
C17_VerifyFrame ==
    [][ /\ (Rejected /\ last'.op = "verify") => store' = store
        /\ (last' # last /\ last'.resp = RespSigInvalid) => (Rejected /\ last'.at = "start")
        /\ \A p \in Workers :
              (Moved(p) /\ procs[p].op = "verify" /\ ~(Returned(p) /\ procs'[p].resp.valid))
              => store' = store
        /\ \A p \in Workers :
              (Returned(p) /\ procs[p].op = "verify" /\ procs'[p].resp.valid)
              => /\ banned' = banned /\ deactivated' = deactivated
                 /\ Cardinality(keys') = Cardinality(keys)
                 /\ \A r \in keys :
                       IF r.key # procs[p].key THEN r \in keys'
                       ELSE \E n \in keys' :
                               /\ n.key = r.key /\ n.created_at = r.created_at
                               /\ n.hwid = procs[p].hwid
                               /\ \E t \in now_str(procs[p].since) : n.last_seen = <<t>>
      ]_vars

\* C18: a verify whose ban lookup runs while the presented key has a BanRecord
\* answers with the key-ban message carrying that record's reason, also when
\* BanRecords of other keys match the presented hardware id.
C18_KeyBanMessageFirst ==
    [][ \A p \in Workers :
          (Returned(p) /\ procs[p].pc = "v_ban" /\ ~procs'[p].fault /\ HasBan(procs[p].key))
          => \E r \in banned :
                /\ r.key = procs[p].key
                /\ procs'[p].resp = Resp(200, FALSE, "banned", ReasonOrDefault(r.reason))
      ]_vars

\* C19 (as claimed): when a ban returns ok, the key's BanRecord carries the
\* hardware id that this ban call read from the key's IssuedKeyRecord ("" if there
\* was none), also when the key already had a BanRecord.
C19_HwidOfLatestBan ==
    [][ \A p \in Workers :
          (Returned(p) /\ procs[p].pc = "b_upsert" /\ ~procs'[p].fault)
          => \E r \in banned' : r.key = procs[p].key /\ r.hwid = procs[p].hwid
      ]_vars

\* C19 (amended): a ban call reads the hardware id of the key's IssuedKeyRecord, ""
\* if there is none; when it returns ok, the key's BanRecord carries that hardware id
\* if the key had no BanRecord, and the hardware id of the existing BanRecord if it
\* had one: a repeated ban updates reason and time only.
C19_HwidOfFirstBan ==
    [][ \A p \in Workers :
          /\ (procs[p].pc = "b_select" /\ procs'[p].pc = "b_deldeact")
                => procs'[p].hwid = (IF \E k \in keys : k.key = procs[p].key
                                     THEN (CHOOSE k \in keys : k.key = procs[p].key).hwid
                                     ELSE "")
          /\ (Returned(p) /\ procs[p].pc = "b_upsert" /\ ~procs'[p].fault)
                => \E r \in banned' :
                      /\ r.key = procs[p].key
                      /\ r.hwid = (IF HasBan(procs[p].key)
                                   THEN (CHOOSE b \in banned : b.key = procs[p].key).hwid
                                   ELSE procs[p].hwid)
      ]_vars

\* C19 witness: a key banned while unregistered was created for a machine and banned
\* again; the ban read the machine's hardware id, and the BanRecord still carries
\* the empty one.
C19_Witness ==
    /\ last.op = "ban" /\ last.resp = RespOk /\ last.preBan # "none"
    /\ last.hwid # ""
    /\ \E k \in keys : k.key = last.key /\ k.hwid = last.hwid
    /\ \E r \in banned : r.key = last.key /\ r.hwid = ""

\* the only BanRecords are records of other keys that carry the empty hardware id
OnlyEmptyHwidBans(key) == banned # {} /\ \A r \in banned : r.key # key /\ r.hwid = ""

\* C20: a verify reaches the store only with a non-empty hardware id, so a BanRecord
\* with the empty hardware id matches it by key or not at all: while the only
\* BanRecords are such records of other keys, the ban lookup of a verify finds
\* nothing, and an undisturbed verify of a registered, non-deactivated key answers
\* valid=true.
C20_EmptyHwidBanMatchesNoMachine ==
    [][ \A p \in Workers :
          /\ (procs'[p].op = "verify" /\ procs'[p].pc # "v_limit") => procs'[p].hwid # ""
          /\ ( /\ procs[p].pc = "v_ban" /\ Moved(p)
               /\ ~(Returned(p) /\ procs'[p].fault)
               /\ OnlyEmptyHwidBans(procs[p].key) )
                => procs'[p].pc = "v_deact"
          /\ ( /\ Clean(p, "verify") /\ OnlyEmptyHwidBans(procs[p].key)
               /\ SelectKey(procs[p].key) # {} /\ SelectDeact(procs[p].key) = {} )
                => procs'[p].resp = RespValid
      ]_vars

\* C20 witness: while unregistered K1 is banned with the empty hardware id, the
\* verify of registered K2 returned valid=true.
C20_Witness ==
    /\ last.op = "verify" /\ last.resp = RespValid /\ ~last.dirty /\ last.key = "K2"
    /\ OnlyEmptyHwidBans("K2")
    /\ SelectKey("K1") = {}

====
